---- MODULE Spec2Model ----
(***************************************************************************)
(* A model of clyde.shard.Shard (src/clyde/shard.py): one gateway shard,   *)
(* its connect coroutine, its receive task, its heartbeat tasks and the    *)
(* close-code policy, together with the environment (the gateway and the   *)
(* caller) that drives them.  asyncio is single-threaded and cooperative:  *)
(* each action below is the code a task runs between two suspension        *)
(* points.                                                                 *)
(***************************************************************************)
EXTENDS Integers, Sequences, FiniteSets, TLC

(***************************************************************************)
(* Bounds of the model.                                                    *)
(***************************************************************************)
\* inbound frames the gateway delivers in one run
MaxFrames == 2
\* heartbeat tasks created in one run
MaxBeats == 2
\* connect() calls made by the owner of the shard in one run
MaxCalls == 1
\* failed ws_connect attempts (connection-establishment errors) in one run
MaxRetries == 1
\* largest sequence number the gateway puts in a frame
MaxSeq == 2

(***************************************************************************)
(* Values.  Python's None is NoInt where an int is expected and "None"     *)
(* where a str is expected.                                                *)
(***************************************************************************)
NoInt == -1
NoStr == "None"

ZLIB_SUFFIX == <<0, 0, 255, 255>>

RESUMABLE == <<4000, 4001, 4002, 4003, 4005, 4007, 4008, 4009>>

\* The codes of the branch `code in (4004, 4011, 4014)`.
FATAL == {4004, 4011, 4014}

BaseUrl == "wss://gateway.discord.gg"

Version == 10

\* FMT_URL.format(base=..., version=...)
FmtUrl(base) ==
    <<base, "/?v=", Version, "&encoding=json&compress=zlib-stream">>

NoUrl == <<>>

(***************************************************************************)
(* Inbound frames.  A binary frame is its bytes (data) and what the bytes  *)
(* inflate to on a healthy stream (z): "garbage" is not deflate data,      *)
(* "bare" is the 4-byte flush marker alone, "notutf8" is inflated bytes    *)
(* that are not UTF-8, "empty", "notjson" and "array" are texts that are   *)
(* not a JSON object, and "object" is a JSON object with its keys op, d,   *)
(* s and t (AbsentOp, DAbsent, NoInt, Absent: the key is missing or null). *)
(***************************************************************************)
Absent == "absent"

AbsentOp == -2

DNull == [kind |-> "null"]

DAbsent == [kind |-> "absent"]

SessionIds == {"abc"}

ResumeHosts == {"wss://x"}

ReadyPayloads ==
    { [kind |-> "object", session_id |-> i, resume_gateway_url |-> h] :
        i \in SessionIds, h \in ResumeHosts }

EventPayload == [kind |-> "object", id |-> 7]

HelloPayload == [kind |-> "object", heartbeat_interval |-> 41250]

Env(op, d, s, t) == [json |-> "object", op |-> op, d |-> d, s |-> s, t |-> t]

Envelopes ==
       { Env(0, d, s, "READY") : d \in ReadyPayloads, s \in 1..MaxSeq }
  \cup { Env(0, EventPayload, s, "MESSAGE_CREATE") : s \in 1..MaxSeq }
  \cup { Env(op, DNull, NoInt, Absent) : op \in {1, 7, 9, 11} }
  \cup { Env(10, HelloPayload, NoInt, Absent) }
  \cup { Env(3, DNull, NoInt, Absent) }

\* JSON objects that are not a usable envelope
BadObjects ==
    { Env(AbsentOp, DAbsent, 1, Absent),
      Env(11, DAbsent, NoInt, Absent),
      Env(0, EventPayload, 1, "READY") }

\* inflated contents that are not a JSON object
BadTexts == { [json |-> "empty"], [json |-> "notjson"], [json |-> "array"] }

\* inflated bytes that are not UTF-8
BadBytes == { [json |-> "notutf8"] }

MarkedData == <<120>> \o ZLIB_SUFFIX

Frames ==
       { [data |-> b, z |-> [json |-> "garbage"]] :
            b \in { <<>>, <<0, 255, 255>>, <<120, 0, 0, 255>>,
                    <<120, 0, 0, 255, 255, 1>>, MarkedData } }
  \cup { [data |-> ZLIB_SUFFIX, z |-> [json |-> "bare"]] }
  \cup { [data |-> MarkedData, z |-> e] :
            e \in Envelopes \cup BadObjects \cup BadTexts \cup BadBytes }

\* close codes the transport can report (NoInt: no close code)
CloseCodes == {NoInt, 1000, 4000, 4009, 4010} \cup FATAL

VARIABLES
    ws,             \* self._ws: "None", or the state of the transport object
    wsUrl,          \* the URL the transport was opened with
    close_code,     \* self._ws.close_code
    reconnect_base, \* self._reconnect_base
    session_id,     \* self.session_id
    sequence,       \* self._sequence
    inflator,       \* self.inf.inflator: "fresh", "mid" (in a stream), "bad"
    financed_hello, \* self._financed_hello: "unset", "pending", "done"
    conn,           \* the connect() coroutine that is past line 144
    recv,           \* self.__receive_task
    hbs,            \* every heartbeat task created, in creation order
    hb_task,        \* self.__hb_task: index into hbs, 0 = attribute not set
    hb_received,    \* self.__hb_received: index of the task whose future it
                    \* is, 0 = attribute not set
    grants,         \* entries into `async with self._rate_limiter`
    sent,           \* what was written to the transport, in order
    dispatched,     \* tasks created for dispatcher.call(t, d), in order
    dcalls,         \* the state of each of these tasks, in the same order
    connectCalls,   \* history: every call of connect(), in order
    helloFor,       \* history: connect calls whose connection processed Hello
    lastS,          \* history: the last non-null `s` the loop decoded
    nFrames,        \* history: frames delivered
    nRetries        \* history: failed ws_connect attempts

shardVars ==
    <<ws, wsUrl, close_code, reconnect_base, session_id, sequence, inflator,
      financed_hello, conn, recv, hbs, hb_task, hb_received, grants, sent,
      dispatched, dcalls, connectCalls, helloFor, lastS, nFrames, nRetries>>

(***************************************************************************)
(* bls_utils.dispatch.Dispatch (src/bls_utils/dispatch.py): the table of   *)
(* handlers and one call of it at a time.                                  *)
(***************************************************************************)
VARIABLES
    events,         \* self._events: event type -> list of handlers
    derr,           \* the exception of the last add_call / remove_call
    call,           \* the last Dispatch.call: its state and handler tasks
    nestedBy,       \* the object nested in the call's payload: 0 as it was
                    \* dispatched, i once handler task i changed it
    registered,     \* history: registrations made and not removed, counted
    lastRemove,     \* history: the last remove_call and the list it found
    leak            \* history: a handler read what a sibling had changed

dispatcherVars ==
    <<events, derr, call, nestedBy, registered, lastRemove, leak>>

(***************************************************************************)
(* clyde.shard_rate_limiter.RateLimiter, the gate of Shard.send, as its    *)
(* specification describes it: a fixed window of capacity tokens.          *)
(***************************************************************************)
VARIABLES
    capacity,         \* tokens per window; 0 before the limiter is made
    available,        \* tokens left in the window
    waiters,          \* the suspended acquires, in the order they queued
    reset_scheduled,  \* a reset timer is pending
    ready,            \* released acquires that have not resumed yet
    acq,              \* where each task is with its acquire
    woken             \* history: the waiters the last reset released

limiterVars ==
    <<capacity, available, waiters, reset_scheduled, ready, acq, woken>>

vars == <<shardVars, dispatcherVars, limiterVars>>

(***************************************************************************)
(* The shard's fields as one record, so that the code of a handler is an   *)
(* operator from the state before it to the state after it.                *)
(***************************************************************************)
Cur ==
    [ws |-> ws, close_code |-> close_code, reconnect_base |-> reconnect_base,
     session_id |-> session_id, sequence |-> sequence, inflator |-> inflator,
     financed_hello |-> financed_hello, conn |-> conn, recv |-> recv,
     hbs |-> hbs, hb_task |-> hb_task, hb_received |-> hb_received,
     grants |-> grants, sent |-> sent, dispatched |-> dispatched,
     dcalls |-> dcalls,
     connectCalls |-> connectCalls, helloFor |-> helloFor, lastS |-> lastS]

\* The step of an action whose handler takes the shard from Cur to st.
Becomes(st) ==
    /\ ws' = st.ws
    /\ close_code' = st.close_code
    /\ reconnect_base' = st.reconnect_base
    /\ session_id' = st.session_id
    /\ sequence' = st.sequence
    /\ inflator' = st.inflator
    /\ financed_hello' = st.financed_hello
    /\ conn' = st.conn
    /\ recv' = st.recv
    /\ hbs' = st.hbs
    /\ hb_task' = st.hb_task
    /\ hb_received' = st.hb_received
    /\ grants' = st.grants
    /\ sent' = st.sent
    /\ dispatched' = st.dispatched
    /\ dcalls' = st.dcalls
    /\ connectCalls' = st.connectCalls
    /\ helloFor' = st.helloFor
    /\ lastS' = st.lastS
    /\ UNCHANGED <<dispatcherVars, limiterVars>>

ShardInit ==
    /\ ws = "None"
    /\ wsUrl = NoUrl
    /\ close_code = NoInt
    /\ reconnect_base = NoStr
    /\ session_id = NoStr
    /\ sequence = NoInt
    /\ inflator = "fresh"
    /\ financed_hello = "unset"
    /\ conn = [pc |-> "idle", reconnect |-> FALSE, url |-> NoUrl, call |-> 0,
               err |-> NoStr]
    /\ recv = [pc |-> "none", call |-> 0, err |-> NoStr]
    /\ hbs = <<>>
    /\ hb_task = 0
    /\ hb_received = 0
    /\ grants = 0
    /\ sent = <<>>
    /\ dispatched = <<>>
    /\ dcalls = <<>>
    /\ connectCalls = <<>>
    /\ helloFor = {}
    /\ lastS = NoInt
    /\ nFrames = 0
    /\ nRetries = 0

EventTypes == {"E", "F"}

Handlers == {"H1", "H2"}

NoCall == [state |-> "none", type |-> NoStr, tasks |-> <<>>, err |-> 0,
           regs |-> [h \in Handlers |-> 0]]

NoRemove == [type |-> NoStr, handler |-> NoStr, before |-> <<>>]

\* Dispatch.__init__, line 47
DispatcherInit ==
    /\ events = [e \in {} |-> <<>>]
    /\ derr = NoStr
    /\ call = NoCall
    /\ nestedBy = 0
    /\ registered = [e \in EventTypes |-> [h \in Handlers |-> 0]]
    /\ lastRemove = NoRemove
    /\ leak = FALSE

MaxCapacity == 3

\* the tasks that send through one limiter: one more than it has tokens
Acquirers == 1..(MaxCapacity + 1)

LimiterNotMade ==
    /\ capacity = 0
    /\ available = 0
    /\ waiters = <<>>
    /\ reset_scheduled = FALSE
    /\ ready = <<>>
    /\ acq = [t \in Acquirers |-> "idle"]
    /\ woken = <<>>

Init == ShardInit /\ DispatcherInit /\ LimiterNotMade

(***************************************************************************)
(* Python semantics the code relies on.                                    *)
(***************************************************************************)
\* `if self._ws:` -- None is false, a ClientWebSocketResponse (which defines
\* neither __bool__ nor __len__) is true, open or closed.
Truthy(w) == w # "None"

\* bool(self._reconnect_base) of a str or None
Bool(str) == str # NoStr /\ str # ""

\* A Python object: its type and what tells it from others of its type.
IntObj(n) == [type |-> "int", id |-> n]

ResumableObj == [type |-> "list", id |-> 0]

\* `a is b`: the two are the same object.
Is(a, b) == a.type = b.type /\ a.id = b.id

\* message.data[-4:]
Last4(data) ==
    IF Len(data) <= 4 THEN data ELSE SubSeq(data, Len(data) - 3, Len(data))

\* self.inf.inflator.decompress(message.data): the inflated content, or
\* zlib.error; a zlib stream that has failed fails on every later call, the
\* 4-byte marker alone is an error at the start of a stream and inflates to
\* nothing inside one.
Decompress(inf, f) ==
    IF inf = "bad" \/ f.z.json = "garbage" \/ (f.z.json = "bare" /\ inf = "fresh")
    THEN [error |-> TRUE, out |-> [json |-> "none"], inflator |-> "bad"]
    ELSE [error |-> FALSE,
          out |-> IF f.z.json = "bare" THEN [json |-> "empty"] ELSE f.z,
          inflator |-> "mid"]

(***************************************************************************)
(* Shard.connect, lines 143-152: the code up to `await ws_connect`.  by is *)
(* the caller and code the close code it acts on (history only).           *)
(***************************************************************************)
ConnectUrl(st, reconnect) ==
    IF st.reconnect_base # NoStr /\ reconnect
    THEN FmtUrl(st.reconnect_base)
    ELSE FmtUrl(BaseUrl)

Call(st, reconnect, by, code, raised) ==
    [by |-> by, reconnect |-> reconnect, code |-> code,
     base |-> st.reconnect_base, raised |-> raised,
     url |-> IF raised THEN NoUrl ELSE ConnectUrl(st, reconnect)]

Connect(st, reconnect, by, code) ==
    IF Truthy(st.ws)
    THEN [st EXCEPT
            !.connectCalls = Append(@, Call(st, reconnect, by, code, TRUE))]
    ELSE [st EXCEPT
            !.financed_hello = "pending",
            !.inflator = "fresh",
            !.conn = [pc |-> "opening", reconnect |-> reconnect,
                      url |-> ConnectUrl(st, reconnect),
                      call |-> Len(st.connectCalls) + 1, err |-> NoStr],
            !.connectCalls = Append(@, Call(st, reconnect, by, code, FALSE))]

AlreadyExists == "ShardError: WebSocket already exists"

\* await self.connect(...) in the receive task: the task ends with connect's
\* exception, or goes on inside connect.
RecvConnect(st, reconnect, by, code) ==
    LET r == Connect(st, reconnect, by, code) IN
    IF Truthy(st.ws)
    THEN [r EXCEPT !.recv.pc = "raised", !.recv.err = AlreadyExists]
    ELSE [r EXCEPT !.recv.pc = "connecting"]

\* await self.connect(...) in heartbeat task i
HbConnect(st, i, reconnect, by) ==
    LET r == Connect(st, reconnect, by, NoInt) IN
    IF Truthy(st.ws)
    THEN [r EXCEPT !.hbs[i].pc = "raised", !.hbs[i].err = AlreadyExists]
    ELSE [r EXCEPT !.hbs[i].pc = "connecting"]

(***************************************************************************)
(* The transport (aiohttp.ClientWebSocketResponse).                        *)
(***************************************************************************)
\* await self._ws.close(code=code): the close handshake; the peer echoes
\* the code.  Closing a closed transport changes nothing.
WsClose(st, code) ==
    IF st.ws = "open"
    THEN [st EXCEPT !.ws = "closed", !.close_code = code]
    ELSE st

\* await self._ws.send_bytes(...) on an open transport
WsWrite(st, cmd) == [st EXCEPT !.sent = Append(@, cmd)]

Heartbeat(st) == [op |-> 1, sid |-> NoStr, seq |-> st.sequence, call |-> 0]

Identify(st) == [op |-> 2, sid |-> NoStr, seq |-> NoInt, call |-> st.conn.call]

Resume(st) ==
    [op |-> 6, sid |-> st.session_id, seq |-> st.sequence,
     call |-> st.conn.call]

\* A send that writes without entering the rate limiter.
AcquireSkipped(g) == g

\* `async with self._rate_limiter:` -- one more entry granted
Acquire(g) == g + 1

\* Shard.send from the connect coroutine, lines 266-270
Send(st, cmd) ==
    IF st.ws = "None"
    THEN [st EXCEPT !.conn.pc = "raised",
                    !.conn.err = "ShardError: WebSocket must exist"]
    ELSE LET a == [st EXCEPT !.grants = Acquire(@)] IN
         IF a.ws = "open"
         THEN [WsWrite(a, cmd) EXCEPT !.conn.pc = "returned"]
         ELSE [a EXCEPT !.conn.pc = "raised",
                        !.conn.err = "ConnectionResetError"]

(***************************************************************************)
(* Heartbeat tasks.  A task is [pc, jitter, fut, err]: pc is "sleep"       *)
(* (line 309/311), "awaitAck" (line 332), "done", "raised", "cancelled";   *)
(* fut is the future the task made at line 313 ("none" before that).       *)
(***************************************************************************)
\* asyncio.create_task(self.__heartbeat_handler(jitter=...)), assigned to
\* self.__hb_task.  The task's first step, line 305, finds self._ws set.
StartHeartbeat(st, jitter) ==
    [st EXCEPT
        !.hbs = Append(@, [pc |-> "sleep", jitter |-> jitter, fut |-> "none",
                           err |-> NoStr]),
        !.hb_task = Len(st.hbs) + 1]

\* task.done()
TaskDone(pc) == pc \in {"done", "raised", "cancelled"}

\* future.done(): a result was set, or the future was cancelled
FutDone(fut) == fut \in {"done", "cancelled"}

\* task.cancel() of heartbeat task i, suspended in sleep or in wait_for
\* (which cancels the future it waits for)
CancelHeartbeat(st, i) ==
    [st EXCEPT !.hbs[i].pc = "cancelled",
               !.hbs[i].fut = IF @ = "pending" THEN "cancelled" ELSE @]

\* self.__receive_task.cancel()
CancelReceive(st) ==
    IF st.recv.pc = "running" THEN [st EXCEPT !.recv.pc = "cancelled"] ELSE st

\* lines 325-329 and 334-339: the recovery of heartbeat task i
Recover(st, i) ==
    LET a == CancelReceive(st)
        b == IF a.ws # "closed" THEN WsClose(a, 1008) ELSE a
    IN  HbConnect(b, i, Bool(b.reconnect_base), "heartbeat")

(***************************************************************************)
(* Shard.handle_close, lines 351-364, run by the receive task.             *)
(***************************************************************************)
RecvRaise(st, err) == [st EXCEPT !.recv.pc = "raised", !.recv.err = err]

CannotRecover == "ShardError: Cannot recover from this code"

HandleClose(st, code) ==
    IF st.hb_task = 0
    THEN RecvRaise(st, "AttributeError: __hb_task")
    ELSE LET a == IF ~TaskDone(st.hbs[st.hb_task].pc)
                  THEN CancelHeartbeat(st, st.hb_task)
                  ELSE st
         IN  IF code = NoInt
             THEN RecvConnect(a, TRUE, "handle_close", code)
             ELSE IF Is(IntObj(code), ResumableObj)
             THEN RecvConnect(a, TRUE, "handle_close", code)
             ELSE IF code > 4000 \/ code = 4000
             THEN RecvConnect(a, FALSE, "handle_close", code)
             ELSE IF code \in FATAL
             THEN RecvRaise(a, CannotRecover)
             ELSE RecvConnect(a, TRUE, "handle_close", code)

(***************************************************************************)
(* Shard.__receive, lines 183-247: one binary message.                     *)
(***************************************************************************)
\* asyncio.create_task(self.__dispatcher.call(t, d)): the task runs on its
\* own; endedAt is the number of frames delivered when it ended (history).
DispatchTask == [state |-> "running", endedAt |-> NoInt]

\* A receive loop that awaits the dispatcher's call.
OnDispatchAwaited(st, d, t) ==
    [st EXCEPT !.dispatched = Append(@, <<t, d>>),
               !.dcalls = Append(@, DispatchTask),
               !.recv.pc = "awaitDispatch"]

\* case 0
OnDispatch(st, d, t) ==
    LET forward(x) == [x EXCEPT !.dispatched = Append(@, <<t, d>>),
                                !.dcalls = Append(@, DispatchTask)] IN
    IF t = "READY"
    THEN IF d.kind # "object"
         THEN RecvRaise(st, "TypeError")
         ELSE IF ~({"session_id", "resume_gateway_url"} \subseteq DOMAIN d)
         THEN RecvRaise(st, "KeyError")
         ELSE forward([st EXCEPT !.session_id = d.session_id,
                                 !.reconnect_base = d.resume_gateway_url])
    ELSE forward(st)

\* case 1
OnHeartbeatRequest(st) ==
    IF st.ws = "open"
    THEN WsWrite(st, Heartbeat(st))
    ELSE RecvRaise(st, "ConnectionResetError")

\* case 7
OnReconnect(st) == RecvConnect(WsClose(st, 1002), TRUE, "op7", NoInt)

\* case 9
OnInvalidSession(st) == RecvConnect(WsClose(st, 1000), FALSE, "op9", NoInt)

\* case 10
OnHello(st, d) ==
    IF d.kind # "object"
    THEN RecvRaise(st, "TypeError")
    ELSE IF "heartbeat_interval" \notin DOMAIN d
    THEN RecvRaise(st, "KeyError")
    ELSE LET a == StartHeartbeat(st, TRUE) IN
         IF a.financed_hello = "done"
         THEN RecvRaise(a, "InvalidStateError")
         ELSE [a EXCEPT !.financed_hello = "done",
                        !.helloFor = @ \cup {st.recv.call}]

\* case 11
OnHeartbeatAck(st) ==
    IF st.hb_received = 0
    THEN RecvRaise(st, "AttributeError: __hb_received")
    ELSE IF ~FutDone(st.hbs[st.hb_received].fut)
    THEN StartHeartbeat([st EXCEPT !.hbs[st.hb_received].fut = "done"], FALSE)
    ELSE st

\* match op, lines 205-247
Route(st, op, d, t) ==
    CASE op = 0 -> OnDispatch(st, d, t)
      [] op = 1 -> OnHeartbeatRequest(st)
      [] op = 7 -> OnReconnect(st)
      [] op = 9 -> OnInvalidSession(st)
      [] op = 10 -> OnHello(st, d)
      [] op = 11 -> OnHeartbeatAck(st)
      [] OTHER -> st

\* self._sequence = data.get('s'), line 199
SetSequence(st, s) ==
    [st EXCEPT !.sequence = s, !.lastS = IF s # NoInt THEN s ELSE @]

\* lines 194-203: decode the text and take the envelope apart
OnText(st, text) ==
    IF text.json # "object"
    THEN RecvRaise(st, "msgspec.DecodeError")
    ELSE LET a == SetSequence(st, text.s) IN
         IF text.op = AbsentOp \/ text.d = DAbsent
         THEN RecvRaise(a, "KeyError")
         ELSE Route(a, text.op, text.d, text.t)

\* line 185: the message is not one whole flushed chunk
Invalid(data) == Len(data) < 4 \/ Last4(data) # ZLIB_SUFFIX

\* lines 183-203
OnBinary(st, f) ==
    IF Invalid(f.data)
    THEN st
    ELSE LET r == Decompress(st.inflator, f)
             a == [st EXCEPT !.inflator = r.inflator]
         IN  IF r.error
             THEN a
             ELSE IF r.out.json = "notutf8"
             THEN RecvRaise(a, "UnicodeDecodeError")
             ELSE OnText(a, r.out)

(***************************************************************************)
(* Actions.                                                                *)
(***************************************************************************)
CallerCalls == {i \in DOMAIN connectCalls : connectCalls[i].by = "caller"}

\* The owner of the shard calls connect(reconnect).
CallConnect(reconnect) ==
    /\ conn.pc \in {"idle", "returned", "raised"}
    /\ Cardinality(CallerCalls) < MaxCalls
    /\ Becomes(Connect(Cur, reconnect, "caller", NoInt))
    /\ UNCHANGED <<wsUrl, nFrames, nRetries>>

\* lines 155-166: ws_connect returns the transport; the receive task is
\* created and connect waits for Hello.
WsConnectOk ==
    /\ conn.pc = "opening"
    /\ Becomes([Cur EXCEPT
            !.ws = "open",
            !.close_code = NoInt,
            !.recv = [pc |-> "running", call |-> conn.call, err |-> NoStr],
            !.conn.pc = "awaitHello"])
    /\ wsUrl' = conn.url
    /\ UNCHANGED <<nFrames, nRetries>>

\* lines 160-164: ws_connect fails; after the sleep connect calls itself.
WsConnectFail ==
    /\ conn.pc = "opening"
    /\ nRetries < MaxRetries
    /\ Becomes(Connect(Cur, conn.reconnect, "retry", NoInt))
    /\ nRetries' = nRetries + 1
    /\ UNCHANGED <<wsUrl, nFrames>>

\* A connect that does not wait for Hello.
HelloNotAwaited(fut) == TRUE

\* line 168: `await self._financed_hello` returns
HelloObserved(fut) == fut = "done"

\* lines 168-173: Hello was seen; resume or identify.
Handshake ==
    /\ conn.pc = "awaitHello"
    /\ HelloObserved(financed_hello)
    /\ Becomes(Send(Cur, IF conn.reconnect THEN Resume(Cur) ELSE Identify(Cur)))
    /\ UNCHANGED <<wsUrl, nFrames, nRetries>>

\* One pass of `async for message in self._ws` for a binary message.
Receive(f) ==
    /\ recv.pc = "running"
    /\ ws = "open"
    /\ nFrames < MaxFrames
    /\ Len(OnBinary(Cur, f).hbs) <= MaxBeats
    /\ Becomes(OnBinary(Cur, f))
    /\ nFrames' = nFrames + 1
    /\ UNCHANGED <<wsUrl, nRetries>>

\* The gateway closes the transport with a close code, or the connection
\* drops.
TransportClosed(code) ==
    /\ ws = "open"
    /\ Becomes([Cur EXCEPT !.ws = "closed", !.close_code = code])
    /\ UNCHANGED <<wsUrl, nFrames, nRetries>>

\* Shard.close, lines 253-254
Close ==
    /\ ws = "open"
    /\ Becomes(IF Truthy(ws) THEN WsClose(Cur, 1000) ELSE Cur)
    /\ UNCHANGED <<wsUrl, nFrames, nRetries>>

\* The loop of __receive ends on a closed transport: line 249.
ReceiveExit ==
    /\ recv.pc = "running"
    /\ ws = "closed"
    /\ Becomes(HandleClose(Cur, close_code))
    /\ UNCHANGED <<wsUrl, nFrames, nRetries>>

\* lines 313-329: the sleep of heartbeat task i is over; reset: send_bytes
\* fails with ConnectionResetError (it always does on a closed transport).
Beat(i, reset) ==
    /\ hbs[i].pc = "sleep"
    /\ LET a == [Cur EXCEPT !.hbs[i].fut = "pending", !.hb_received = i] IN
       Becomes(IF a.ws = "open" /\ ~reset
               THEN [WsWrite(a, Heartbeat(a)) EXCEPT !.hbs[i].pc = "awaitAck"]
               ELSE Recover(a, i))
    /\ UNCHANGED <<wsUrl, nFrames, nRetries>>

\* line 332: the future of heartbeat task i has its result.
Acked(i) ==
    /\ hbs[i].pc = "awaitAck"
    /\ hbs[i].fut = "done"
    /\ Becomes([Cur EXCEPT !.hbs[i].pc = "done"])
    /\ UNCHANGED <<wsUrl, nFrames, nRetries>>

\* lines 333-339: wait_for times out after 5 seconds and cancels the future.
AckTimeout(i) ==
    /\ hbs[i].pc = "awaitAck"
    /\ hbs[i].fut = "pending"
    /\ Becomes(Recover([Cur EXCEPT !.hbs[i].fut = "cancelled"], i))
    /\ UNCHANGED <<wsUrl, nFrames, nRetries>>

\* The task of dispatcher.call number i ends: the call returns, or it raises
\* a handler's exception (Dispatch.call, lines 92-106).  A call whose
\* handler never finishes never takes this step.
DispatchEnds(i, outcome) ==
    /\ dcalls[i].state = "running"
    /\ Becomes([Cur EXCEPT !.dcalls[i] = [state |-> outcome,
                                          endedAt |-> nFrames]])
    /\ UNCHANGED <<wsUrl, nFrames, nRetries>>

Next ==
    \/ \E reconnect \in BOOLEAN : CallConnect(reconnect)
    \/ WsConnectOk
    \/ WsConnectFail
    \/ Handshake
    \/ \E f \in Frames : Receive(f)
    \/ \E code \in CloseCodes : TransportClosed(code)
    \/ Close
    \/ ReceiveExit
    \/ \E i \in DOMAIN hbs : \E reset \in BOOLEAN : Beat(i, reset)
    \/ \E i \in DOMAIN hbs : Acked(i)
    \/ \E i \in DOMAIN hbs : AckTimeout(i)

Spec == Init /\ [][Next]_vars

(***************************************************************************)
(* The shard with the tasks of the dispatcher's calls running to their end *)
(* beside the receive loop, on a transport that stays open.                *)
(***************************************************************************)
NextEvents ==
    \/ \E reconnect \in BOOLEAN : CallConnect(reconnect)
    \/ WsConnectOk
    \/ WsConnectFail
    \/ Handshake
    \/ \E f \in Frames : Receive(f)
    \/ \E i \in DOMAIN dcalls : \E outcome \in {"done", "raised"} :
          DispatchEnds(i, outcome)

SpecEvents == Init /\ [][NextEvents]_vars

(***************************************************************************)
(* Properties.                                                             *)
(***************************************************************************)
Handshakes == {i \in DOMAIN sent : sent[i].op \in {2, 6}}

HandshakesOf(c) == {i \in Handshakes : sent[i].call = c}

Resumable == {RESUMABLE[i] : i \in DOMAIN RESUMABLE}

\* C1: the stored sequence is the `s` of the last frame that carried one; a
\* frame without `s` leaves it unchanged.
C1_SequenceIsLastNonNull == sequence = lastS

\* C2: a connect made by the receive loop for a Reconnect (op 7) or Invalid
\* Session (op 9) frame does not fail with AlreadyConnected.
C2_ReconnectNotAlreadyConnected ==
    \A i \in DOMAIN connectCalls :
        connectCalls[i].by \in {"op7", "op9"} => ~connectCalls[i].raised

\* C3: handle_close with a close code of the resumable set calls connect with
\* resume = true, never with resume = false.
C3_ResumableCodeResumes ==
    \A i \in DOMAIN connectCalls :
        (connectCalls[i].by = "handle_close" /\ connectCalls[i].code \in Resumable)
            => connectCalls[i].reconnect

\* C4: for a fatal close code (4004, 4011, 4014) handle_close makes no
\* connection attempt, resume or fresh.
C4_FatalCodeNotRetried ==
    \A i \in DOMAIN connectCalls : connectCalls[i].code \notin FATAL

C7_ResumeHasSessionId ==
    \A i \in DOMAIN sent : sent[i].op = 6 => sent[i].sid # NoStr

\* C8: READY records the session id and the resume host and is forwarded, and
\* from then on connect(resume = true) opens the recorded resume host; every
\* other connect opens the base host.
C8_ReadyThenResumeHost ==
    /\ \A i \in DOMAIN dispatched :
          (dispatched[i][1] = "READY"
             /\ \A j \in DOMAIN dispatched : j > i => dispatched[j][1] # "READY")
          => /\ session_id = dispatched[i][2].session_id
             /\ reconnect_base = dispatched[i][2].resume_gateway_url
    /\ \A i \in DOMAIN connectCalls :
          IF connectCalls[i].reconnect /\ connectCalls[i].base # NoStr
          THEN connectCalls[i].url = FmtUrl(connectCalls[i].base)
          ELSE ~connectCalls[i].raised => connectCalls[i].url = FmtUrl(BaseUrl)

\* C9: a binary frame of 4 bytes or fewer, or without the trailing
\* 00 00 FF FF, changes nothing and leaves the loop running.
C9_ShortFrameIgnored ==
    [][\A f \in Frames :
          (Receive(f) /\ (Len(f.data) <= 4 \/ Last4(f.data) # ZLIB_SUFFIX))
          => /\ UNCHANGED <<sequence, session_id, reconnect_base, hbs, hb_task,
                           hb_received, sent, dispatched>>
             /\ recv'.pc = "running"]_vars

\* a frame with the marker that does not inflate, or inflates to something
\* that is not an envelope with `op` and `d`
Malformed(f) ==
    /\ ~Invalid(f.data)
    /\ \/ f.z.json # "object"
       \/ f.z.op = AbsentOp
       \/ f.z.d = DAbsent

\* C10: a malformed frame is discarded and the loop keeps running.
C10_MalformedFrameDiscarded ==
    [][\A f \in Frames :
          (Receive(f) /\ Malformed(f)) => recv'.pc = "running"]_vars

\* C11: when a heartbeat send is reset or its ack times out, the recovery's
\* connect opens a new transport: it does not fail, and the heartbeat task
\* does not end in an error.
C11_HeartbeatRecoveryReconnects ==
    /\ \A i \in DOMAIN connectCalls :
          connectCalls[i].by = "heartbeat" => ~connectCalls[i].raised
    /\ \A i \in DOMAIN hbs : hbs[i].pc # "raised"

\* C19: never two heartbeat tasks both sleeping toward a send, and never two
\* both awaiting an ack.
C19_OneHeartbeatCycle ==
    /\ Cardinality({i \in DOMAIN hbs : hbs[i].pc = "sleep"}) <= 1
    /\ Cardinality({i \in DOMAIN hbs :
                        hbs[i].pc = "awaitAck" /\ hbs[i].fut = "pending"}) <= 1

\* C20: handle_close reaches a recovery decision in every state of the
\* handshake, and a heartbeat ack before the first heartbeat does not end the
\* receive loop: the receive task never dies of a missing attribute.
C20_CloseAndEarlyAckHandled ==
    recv.err \notin {"AttributeError: __hb_task", "AttributeError: __hb_received"}

\* C16: the receive loop hands an op-0 event to the dispatcher without
\* waiting: processing a Dispatch frame leaves the loop at its next frame
\* with the call's task created, and the end of a call -- normal or by a
\* handler's failure -- changes nothing of the receive task or of the
\* session.
C16_DispatchNeverHaltsLoop ==
    [][/\ \A f \in Frames :
             (Receive(f) /\ f.z \in Envelopes /\ f.z.op = 0)
             => recv'.pc = "running"
       /\ \A i \in DOMAIN dcalls : \A outcome \in {"done", "raised"} :
             DispatchEnds(i, outcome)
             => UNCHANGED <<recv, ws, sequence, session_id, reconnect_base,
                            dispatched, sent>>]_vars

\* a frame was dispatched after the first event's call had failed, and another
\* after a call that is still running
C16_Witness ==
    /\ Len(dcalls) = 2
    /\ dcalls[1].state = "raised"
    /\ dcalls[1].endedAt = 1
    /\ dcalls[2].state = "running"
    /\ recv.pc = "running"
    /\ sequence = lastS

(***************************************************************************)
(* Dispatch: add_call, remove_call and call (src/bls_utils/dispatch.py).   *)
(***************************************************************************)
MaxHandlers == 3

MaxTasks == 2

Range(l) == {l[i] : i \in DOMAIN l}

\* list.append of a handler that is already in the list: kept out
AppendOnce(l, caller) == IF caller \in Range(l) THEN l ELSE Append(l, caller)

\* line 62: self._events[invoker].append(caller)
ListAppend(l, caller) == Append(l, caller)

\* list.remove taking every occurrence out
ListRemoveAll(l, caller) == SelectSeq(l, LAMBDA x : x # caller)

RECURSIVE ListRemove(_, _)
\* line 78: list.remove(caller) scans from the head and deletes the first
\* element equal to caller
ListRemove(l, caller) ==
    IF l = <<>> THEN <<>>
    ELSE IF Head(l) = caller THEN Tail(l)
    ELSE <<Head(l)>> \o ListRemove(Tail(l), caller)

\* add_call, lines 61-64
AddCall(invoker, caller) ==
    /\ events' = IF invoker \in DOMAIN events
                 THEN [events EXCEPT ![invoker] = ListAppend(@, caller)]
                 ELSE [e \in DOMAIN events \cup {invoker} |->
                          IF e = invoker THEN <<caller>> ELSE events[e]]
    /\ derr' = NoStr
    /\ registered' = [registered EXCEPT ![invoker][caller] = @ + 1]
    /\ UNCHANGED <<call, nestedBy, lastRemove, leak>>
    /\ UNCHANGED <<shardVars, limiterVars>>

\* remove_call, line 78: self._events[invoker] raises KeyError for an unknown
\* event type, list.remove raises ValueError for a handler that is not there
RemoveCall(invoker, caller) ==
    /\ lastRemove' = [type |-> invoker, handler |-> caller,
                      before |-> IF invoker \in DOMAIN events
                                 THEN events[invoker] ELSE <<>>]
    /\ IF invoker \notin DOMAIN events
       THEN derr' = "KeyError" /\ UNCHANGED <<events, registered>>
       ELSE IF caller \notin Range(events[invoker])
       THEN derr' = "ValueError" /\ UNCHANGED <<events, registered>>
       ELSE /\ events' = [events EXCEPT ![invoker] = ListRemove(@, caller)]
            /\ derr' = NoStr
            /\ registered' = [registered EXCEPT ![invoker][caller] = @ - 1]
    /\ UNCHANGED <<call, nestedBy, leak>>
    /\ UNCHANGED <<shardVars, limiterVars>>

\* lines 101-104: one coroutine per entry of the list, in its order
Tasks(callers) ==
    [i \in DOMAIN callers |->
        [h |-> callers[i], pc |-> "running", late |-> FALSE]]

\* call, lines 92-106: events.get(type) is None for an unknown type and the
\* call returns; gather of no awaitable is done at once
DispatchCall(type) ==
    /\ call' = IF type \notin DOMAIN events
               THEN [NoCall EXCEPT !.state = "returned", !.type = type,
                                   !.regs = registered[type]]
               ELSE [state |-> IF events[type] = <<>> THEN "returned"
                               ELSE "gathering",
                     type |-> type,
                     tasks |-> Tasks(events[type]),
                     err |-> 0,
                     regs |-> registered[type]]
    /\ nestedBy' = 0
    /\ leak' = FALSE
    /\ UNCHANGED <<events, derr, registered, lastRemove>>
    /\ UNCHANGED <<shardVars, limiterVars>>

\* gather that cancels the awaitables still running when one fails
GatherCancelling(c, i, outcome) ==
    LET ended == [c.tasks EXCEPT ![i].pc = outcome,
                                 ![i].late = (c.state # "gathering")] IN
    IF c.state # "gathering" THEN [c EXCEPT !.tasks = ended]
    ELSE IF outcome = "failed"
    THEN [c EXCEPT !.state = "raised", !.err = i,
                   !.tasks = [j \in DOMAIN ended |->
                                 IF ended[j].pc = "running"
                                 THEN [ended[j] EXCEPT !.pc = "cancelled"]
                                 ELSE ended[j]]]
    ELSE [c EXCEPT !.tasks = ended,
                   !.state = IF \A j \in DOMAIN ended : ended[j].pc = "done"
                             THEN "returned" ELSE "gathering"]

\* line 106: asyncio.gather(*tasks) without return_exceptions: the first
\* exception is propagated to the awaiter at once and the other awaitables
\* keep running; with none it is done when the last awaitable is
Gather(c, i, outcome) ==
    LET ended == [c.tasks EXCEPT ![i].pc = outcome,
                                 ![i].late = (c.state # "gathering")] IN
    IF c.state # "gathering" THEN [c EXCEPT !.tasks = ended]
    ELSE IF outcome = "failed"
    THEN [c EXCEPT !.state = "raised", !.err = i, !.tasks = ended]
    ELSE [c EXCEPT !.tasks = ended,
                   !.state = IF \A j \in DOMAIN ended : ended[j].pc = "done"
                             THEN "returned" ELSE "gathering"]

\* a handler coroutine returns or raises
HandlerEnds(i, outcome) ==
    /\ call.tasks[i].pc = "running"
    /\ call' = Gather(call, i, outcome)
    /\ UNCHANGED <<events, derr, nestedBy, registered, lastRemove, leak>>
    /\ UNCHANGED <<shardVars, limiterVars>>

\* line 98: frozendict.frozendict(data) copies the top level of data only;
\* the objects and lists nested in it are the ones every handler is given,
\* and a handler changes one in place
HandlerMutates(i) ==
    /\ call.tasks[i].pc = "running"
    /\ nestedBy' = i
    /\ UNCHANGED <<events, derr, call, registered, lastRemove, leak>>
    /\ UNCHANGED <<shardVars, limiterVars>>

\* a handler reads the nested object of the payload it was given
HandlerReads(i) ==
    /\ call.tasks[i].pc = "running"
    /\ leak' = (leak \/ nestedBy \notin {0, i})
    /\ UNCHANGED <<events, derr, call, nestedBy, registered, lastRemove>>
    /\ UNCHANGED <<shardVars, limiterVars>>

RECURSIVE Sum(_, _)
Sum(f, S) == IF S = {} THEN 0
             ELSE LET x == CHOOSE x \in S : TRUE IN f[x] + Sum(f, S \ {x})

\* the registrations in the table, all event types together
Size(ev) == Sum([e \in DOMAIN ev |-> Len(ev[e])], DOMAIN ev)

Idle == \A i \in DOMAIN call.tasks : call.tasks[i].pc # "running"

\* the table under add_call, remove_call and call
NextTable ==
    \/ \E e \in EventTypes : \E h \in Handlers :
          Size(events) < MaxHandlers /\ AddCall(e, h)
    \/ \E e \in EventTypes : \E h \in Handlers : RemoveCall(e, h)
    \/ \E e \in EventTypes : DispatchCall(e)

SpecTable == Init /\ [][NextTable]_vars

\* one call at a time and its handlers
NextCall ==
    \/ \E h \in Handlers : Idle /\ Size(events) < MaxTasks /\ AddCall("E", h)
    \/ \E e \in EventTypes : Idle /\ DispatchCall(e)
    \/ \E i \in DOMAIN call.tasks : \E outcome \in {"done", "failed"} :
          HandlerEnds(i, outcome)
    \/ \E i \in DOMAIN call.tasks : HandlerMutates(i)
    \/ \E i \in DOMAIN call.tasks : HandlerReads(i)

SpecCall == Init /\ [][NextCall]_vars

\* the coroutines the last call created from handler h
Invoked(h) == Cardinality({i \in DOMAIN call.tasks : call.tasks[i].h = h})

\* C12: a call of an event type invokes each handler as many times as it is
\* registered for that type when the call is made (registrations by add_call
\* less those taken out by remove_call, other types not counted), and with
\* no handler registered, the type never added or its list emptied, it
\* returns at once, without error, having invoked nothing.
C12_CallInvokesRegistered ==
    call.state # "none" =>
        /\ \A h \in Handlers : Invoked(h) = call.regs[h]
        /\ (\A h \in Handlers : call.regs[h] = 0) =>
               call.state = "returned" /\ call.tasks = <<>>
        /\ call.state \in {"returned", "gathering"}

C12_Witness ==
    /\ call.type = "E"
    /\ call.regs["H1"] = 2 /\ Invoked("H1") = 2
    /\ registered["F"]["H2"] = 1 /\ Invoked("H2") = 0
    /\ lastRemove.type = "F" /\ lastRemove.handler = "H1"
    /\ events["F"] = <<"H2">>

FirstIndex(l, x) ==
    CHOOSE p \in DOMAIN l : l[p] = x /\ \A q \in 1..(p - 1) : l[q] # x

WithoutFirst(l, x) ==
    LET p == FirstIndex(l, x) IN
    SubSeq(l, 1, p - 1) \o SubSeq(l, p + 1, Len(l))

\* C13: remove_call of a handler that is in the list of the event type takes
\* out its first occurrence and nothing else, every other entry keeping its
\* place; for an unknown event type or a handler that is not in the list it
\* fails (KeyError, ValueError) and the table is as it was.
C13_RemoveFirstOccurrence ==
    [][\A e \in EventTypes : \A h \in Handlers :
          RemoveCall(e, h) =>
              IF e \in DOMAIN events /\ h \in Range(events[e])
              THEN /\ derr' = NoStr
                   /\ events' = [events EXCEPT ![e] = WithoutFirst(@, h)]
              ELSE /\ derr' \in {"KeyError", "ValueError"}
                   /\ events' = events]_vars

C13_Witness ==
    /\ lastRemove.handler = "H1"
    /\ lastRemove.before = <<"H1", "H2", "H1">>
    /\ derr = NoStr
    /\ lastRemove.type \in DOMAIN events
    /\ events[lastRemove.type] = <<"H2", "H1">>

\* C14: no handler of a call reads, in the payload it was given, a change
\* that a sibling handler of the same call made.
C14_SiblingsSeeSameSnapshot == leak = FALSE

\* C15: the handlers of a call run side by side; the call is pending while
\* some handler runs and none has failed, returns when every handler is
\* done, and raises the failure of the first handler to fail in the step
\* that handler fails; no handler is ever cancelled, so those still running
\* then end by themselves.
C15_GatherSemantics ==
    /\ \A i \in DOMAIN call.tasks :
          call.tasks[i].pc \in {"running", "done", "failed"}
    /\ call.state = "gathering" =>
          /\ \A i \in DOMAIN call.tasks : call.tasks[i].pc # "failed"
          /\ \E i \in DOMAIN call.tasks : call.tasks[i].pc = "running"
    /\ call.state = "returned" =>
          \A i \in DOMAIN call.tasks : call.tasks[i].pc = "done"
    /\ call.state = "raised" =>
          /\ call.err \in DOMAIN call.tasks
          /\ call.tasks[call.err].pc = "failed"
          /\ ~call.tasks[call.err].late
          /\ \A i \in DOMAIN call.tasks \ {call.err} :
                call.tasks[i].pc = "failed" => call.tasks[i].late

C15_Witness ==
    /\ call.state = "raised"
    /\ call.err = 2
    /\ call.tasks[1].pc = "done"
    /\ call.tasks[1].late

(***************************************************************************)
(* RateLimiter: acquire and the reset timer.                               *)
(***************************************************************************)
\* RateLimiter(capacity, window_seconds)
LimiterMade(c) ==
    /\ capacity = 0
    /\ capacity' = c
    /\ available' = c
    /\ UNCHANGED <<waiters, reset_scheduled, ready, acq, woken>>
    /\ UNCHANGED <<shardVars, dispatcherVars>>

\* an acquire that never waits
MayTakeAlways(a) == TRUE

\* acquire suspends the caller while available == 0
MayTake(a) == a # 0

\* one pass of acquire by task t: granted, available goes down by one and
\* the first grant of a window schedules the reset; or queued as a waiter
Enter(t) ==
    IF MayTake(available)
    THEN /\ available' = available - 1
         /\ reset_scheduled' = TRUE
         /\ acq' = [acq EXCEPT ![t] = "idle"]
         /\ UNCHANGED waiters
    ELSE /\ waiters' = Append(waiters, t)
         /\ acq' = [acq EXCEPT ![t] = "waiting"]
         /\ UNCHANGED <<available, reset_scheduled>>

\* a task calls acquire()
LimiterAcquire(t) ==
    /\ capacity > 0
    /\ acq[t] = "idle"
    /\ Enter(t)
    /\ UNCHANGED <<capacity, ready, woken>>
    /\ UNCHANGED <<shardVars, dispatcherVars>>

\* the released acquire that has waited longest to run resumes and tests
\* available again
LimiterResume ==
    /\ ready # <<>>
    /\ Enter(Head(ready))
    /\ ready' = Tail(ready)
    /\ UNCHANGED <<capacity, woken>>
    /\ UNCHANGED <<shardVars, dispatcherVars>>

\* the waiter that queued first
PopFirst(w) == 1

\* the waiter a reset releases next: the one that queued last
PopLast(w) == Len(w)

RECURSIVE Release(_, _, _)
\* the reset releases waiters one by one, up to n of them
Release(w, n, out) ==
    IF n = 0 \/ w = <<>> THEN [left |-> w, released |-> out]
    ELSE LET i == PopLast(w) IN
         Release(SubSeq(w, 1, i - 1) \o SubSeq(w, i + 1, Len(w)), n - 1,
                 Append(out, w[i]))

\* the reset timer fires, a window after it was set: the acquires the reset
\* before it released have resumed by then
LimiterReset ==
    /\ reset_scheduled
    /\ ready = <<>>
    /\ LET r == Release(waiters, capacity, <<>>) IN
       /\ available' = capacity
       /\ waiters' = r.left
       /\ woken' = r.released
       /\ ready' = r.released
       /\ acq' = [t \in Acquirers |->
                     IF t \in Range(r.released) THEN "released" ELSE acq[t]]
       /\ reset_scheduled' = (r.left # <<>>)
    /\ UNCHANGED capacity
    /\ UNCHANGED <<shardVars, dispatcherVars>>

NextLimiter ==
    \/ \E c \in 1..MaxCapacity : LimiterMade(c)
    \/ \E t \in Acquirers : LimiterAcquire(t)
    \/ LimiterResume
    \/ LimiterReset

SpecLimiter == Init /\ [][NextLimiter]_vars

LimiterInv == 0 <= available /\ available <= capacity

\* C17: available stays within 0..capacity; an acquire that finds no token
\* left is queued and stays queued until a reset releases it; available
\* goes up only in a reset, which sets it to capacity; and a reset releases
\* at most capacity waiters and leaves a reset scheduled exactly when
\* waiters remain.
C17_LimiterInvariants ==
    [][/\ LimiterInv /\ LimiterInv'
       /\ \A t \in Acquirers :
             /\ (LimiterAcquire(t) /\ available = 0) =>
                    acq'[t] = "waiting" /\ available' = 0
             /\ (acq[t] = "waiting" /\ acq'[t] # "waiting") => LimiterReset
       /\ (capacity > 0 /\ available' > available) =>
              LimiterReset /\ available' = capacity
       /\ LimiterReset =>
              /\ Len(woken') <= capacity
              /\ Len(waiters') = Len(waiters) - Len(woken')
              /\ reset_scheduled' = (waiters' # <<>>)]_vars

C17_Witness ==
    /\ capacity = 3
    /\ available = 3
    /\ Len(woken) = 3
    /\ ready = woken
    /\ Len(waiters) = 1
    /\ reset_scheduled

Reverse(s) == [i \in 1..Len(s) |-> s[Len(s) + 1 - i]]

IsSuffix(a, b) ==
    Len(a) <= Len(b) /\ a = SubSeq(b, Len(b) - Len(a) + 1, Len(b))

\* C18: a reset releases the waiters that queued last, the latest first, and
\* leaves the earliest queued suspended; the released acquires resume, and
\* take their tokens, in the order they were released.
C18_LifoRelease ==
    [][/\ LimiterReset =>
              LET n == Len(waiters)
                  k == IF n < capacity THEN n ELSE capacity IN
              /\ woken' = Reverse(SubSeq(waiters, n - k + 1, n))
              /\ waiters' = SubSeq(waiters, 1, n - k)
              /\ ready' = woken'
       /\ LimiterResume =>
              /\ IsSuffix(ready, woken)
              /\ available > 0 =>
                     /\ acq'[Head(ready)] = "idle"
                     /\ available' = available - 1]_vars

C18_Witness ==
    /\ capacity = 3
    /\ woken = <<3, 2, 1>>
    /\ ready = <<>>
    /\ waiters = <<>>
    /\ available = 0

====
